---- MODULE Spec2Model ----
(***************************************************************************)
(* Model of the PS2 Half-Life texture extractor.                           *)
(*                                                                         *)
(*   src/PS2-HLTE.py  the marker-scan pipeline (extract_textures)          *)
(*   src/dol_png.py   the fixed-header pipeline (MDLViewerDarkFit)         *)
(*                                                                         *)
(* Bytes are naturals in 0..255, buffers are sequences of bytes.  Python   *)
(* offsets are 0-based; a TLA+ sequence is 1-based, so byte o of a buffer  *)
(* d is d[o + 1].                                                          *)
(***************************************************************************)
EXTENDS Integers, Sequences, FiniteSets, TLC

VARIABLES
    \* ---- marker-scan pipeline (locals of extract_textures) ----
    data,           \* the file's bytes
    start,          \* scan position
    name_start,     \* offset of the last candidate name (-1: not found)
    name_end,       \* offset just past the last candidate name
    texture_name,   \* the decoded, sanitized name of the last candidate
    texture_start,  \* offset of the last data sentinel found (-1: not found)
    texture_count,  \* number of images saved
    saved,          \* the images written so far, in order
    pc,             \* "loop" | "done" | "crashed" (decoding raised) |
                    \* "save_failed" (image.save raised)
    iters,          \* number of executions of the while loop's body
    \* ---- palette swizzle (ps2_palette_reformat as a pure function) ----
    pal,            \* a palette byte array
    pal0,           \* the byte array the run started from
    applied,        \* how many times the swizzle was applied to pal0
    \* ---- viewer session (fields of MDLViewerDarkFit) ----
    vdata,          \* self.data: [loaded, bytes]; None is loaded = FALSE
    entries,        \* the header Entry widgets load_mdl reads back
    textures,       \* self.textures
    current_tex,    \* self.current_tex
    tex_list,       \* the Listbox: [size, sel]
    shown,          \* what the canvas shows: <<>> or <<image>>
    written,        \* the PNG files the last handler wrote, in order
    dialog,         \* the open save dialog of save_selected_png8: <<>> or
                    \* <<[file, tex, image]>>, the suggested name and img8
    outcome         \* how the last handler ended

scanVars == <<data, start, name_start, name_end, texture_name, texture_start,
              texture_count, saved, pc, iters>>
palVars == <<pal, pal0, applied>>
viewVars == <<vdata, entries, textures, current_tex, tex_list, shown, written,
              dialog, outcome>>
vars == <<scanVars, palVars, viewVars>>

----------------------------------------------------------------------------
(* Bytes and Python's slicing and searching.                               *)

Min2(a, b) == IF a <= b THEN a ELSE b
Max2(a, b) == IF a >= b THEN a ELSE b

\* Python d[a:b] for 0 <= a <= b.
Slice(d, a, b) == SubSeq(d, a + 1, Min2(b, Len(d)))

\* Python d[a:].
SliceFrom(d, a) == SubSeq(d, a + 1, Len(d))

\* bytes.find(pat, from): the lowest offset >= from where pat occurs, or -1.
Find(d, pat, from) ==
    LET S == {i \in from..(Len(d) - Len(pat)) :
                 \A k \in 1..Len(pat) : d[i + k] = pat[k]}
    IN IF S = {} THEN -1 ELSE CHOOSE i \in S : \A j \in S : i <= j

\* The concatenation of a sequence of sequences.
RECURSIVE Concat(_)
Concat(ss) == IF ss = <<>> THEN <<>> ELSE Head(ss) \o Concat(Tail(ss))

\* The byte patterns of the marker-scan format.
PsxMarker == <<112, 115, 120, 95>>         \* b'psx_'  70 73 78 5F
GmanMarker == <<103, 109, 97, 110>>        \* b'gman'  67 6D 61 6E
Sentinel == <<255, 255, 255, 128>>         \* FF FF FF 80
ZeroRun == <<0, 0, 0>>
BmpSuffix == <<46, 66, 77, 80>>            \* '.BMP'
BmpExt == <<46, 98, 109, 112>>             \* '.bmp'

\* int.from_bytes(b, byteorder='little') of a slice of at most two bytes.
FromLittle(b) ==
    IF Len(b) = 0 THEN 0
    ELSE IF Len(b) = 1 THEN b[1]
    ELSE b[1] + 256 * b[2]

\* bytes.decode('ascii', errors='ignore'): bytes >= 0x80 are dropped.
IsAscii(b) == b < 128
DecodeAsciiIgnore(b) == SelectSeq(b, IsAscii)

\* Faulty variant, used to test the sensitivity of the properties: NUL bytes are left in the name.
sanitize_filename_keeps_nul(filename) == filename

\* re.sub(r'[\x00]', '_', filename)
sanitize_filename(filename) ==
    [i \in 1..Len(filename) |-> IF filename[i] = 0 THEN 95 ELSE filename[i]]

\* str.endswith
EndsWith(s, suffix) ==
    /\ Len(s) >= Len(suffix)
    /\ SubSeq(s, Len(s) - Len(suffix) + 1, Len(s)) = suffix

----------------------------------------------------------------------------
(* Marker-scan pipeline: the decoding helpers.                             *)

NumColors == 256
PaletteBytes == 1024

\* extract_palette raises ValueError when a 4-byte colour slice is short.
extract_palette_raises(texture_data) == Len(texture_data) < NumColors * 4

extract_palette(texture_data) ==
    [i \in 1..NumColors |->
        <<texture_data[4 * (i - 1) + 1], texture_data[4 * (i - 1) + 2],
          texture_data[4 * (i - 1) + 3]>>]

\* extract_texture_indices raises IndexError at the first pixel past the data.
extract_texture_indices_raises(texture_data, width, height) ==
    width * height > Len(texture_data)

extract_texture_indices(texture_data, width, height) ==
    [y \in 1..height |-> [x \in 1..width |-> texture_data[(y - 1) * width + (x - 1) + 1]]]

\* The while loop of lines 79-81: the first offset e >= name_start + 4 at which
\* "e + 3 < len(data) and data[e:e+3] != 00 00 00" is false.
NameLoopStops(d, e) == ~(e + 3 < Len(d) /\ Slice(d, e, e + 3) # ZeroRun)

\* Faulty variant, used to test the sensitivity of the properties: the name is taken to end where it starts.
NameEndAtStart(d, ns) == ns

NameEnd(d, ns) ==
    LET S == {e \in (ns + 4)..Max2(ns + 4, Len(d) - 3) : NameLoopStops(d, e)}
    IN CHOOSE e \in S : \A f \in S : e <= f

\* Lines 69-71: the 'psx_' search, overridden by the 'gman' search when it hits.
NameStart(d, from) ==
    LET first == Find(d, PsxMarker, from)
    IN IF first # -1 THEN Find(d, GmanMarker, from) ELSE first

\* Lines 83-86.
TextureName(d, ns, ne) == sanitize_filename(DecodeAsciiIgnore(Slice(d, ns, ne)))

\* Faulty variant, used to test the sensitivity of the properties: the suffix is compared in lower case.
IsBmpNameLower(name) == EndsWith(name, BmpExt)

\* Line 89.
IsBmpName(name) == EndsWith(name, BmpSuffix)

\* Lines 109-117.
TextureEnd(d, ts) ==
    LET next_texture_start == Find(d, PsxMarker, ts + 4)
    IN IF next_texture_start # -1 THEN next_texture_start ELSE Len(d)

TextureData(d, ts) == Slice(d, ts, TextureEnd(d, ts))

\* Lines 120-127.
SizeData(d, ts) == Slice(d, ts - 4, ts)
Width(d, ts) == FromLittle(SubSeq(SizeData(d, ts), 1, Min2(2, Len(SizeData(d, ts)))))
Height(d, ts) == FromLittle(SubSeq(SizeData(d, ts), 3, Len(SizeData(d, ts))))

\* Lines 133-136: does decoding the record at sentinel ts raise?
DecodeRaises(d, ts) ==
    \/ extract_palette_raises(TextureData(d, ts))
    \/ extract_texture_indices_raises(SliceFrom(TextureData(d, ts), NumColors * 4),
                                      Width(d, ts), Height(d, ts))

\* Lines 133-145: the image saved for the record at sentinel ts.
SavedImage(d, ns, ts, name) ==
    [file |-> name \o BmpExt,
     name_start |-> ns,
     texture_start |-> ts,
     width |-> Width(d, ts),
     height |-> Height(d, ts),
     palette |-> extract_palette(TextureData(d, ts)),
     indices |-> extract_texture_indices(SliceFrom(TextureData(d, ts), NumColors * 4),
                                         Width(d, ts), Height(d, ts))]

----------------------------------------------------------------------------
(* Marker-scan pipeline: the input files.                                  *)
(*                                                                         *)
(* A file is a concatenation of at most MaxSegs segments.  A data block is *)
(* laid out as the code reads it: the 4-byte size pattern, then 1024       *)
(* palette bytes of which the first quad is the sentinel FF FF FF 80, then *)
(* the index bytes.  Every fourth palette byte is 0x80, so no marker       *)
(* occurs inside a palette, and index bytes are in 1..4.                   *)

MaxSegs == 2

PaletteBlock ==
    [i \in 1..PaletteBytes |->
        IF i <= 4 THEN Sentinel[i]
        ELSE LET q == (i - 1) \div 4
                 c == (i - 1) % 4
             IN CASE c = 0 -> q
                  [] c = 1 -> (3 * q) % 256
                  [] c = 2 -> (7 * q) % 256
                  [] OTHER -> 128]

Pixels(n) == [i \in 1..n |-> (i % 4) + 1]

SizePattern(w, h) == <<w % 256, w \div 256, h % 256, h \div 256>>

\* name, terminator, size pattern, palette (sentinel first), npix index bytes
RecordBytes(name, w, h, npix) ==
    name \o ZeroRun \o SizePattern(w, h) \o PaletteBlock \o Pixels(npix)

\* a name with its terminator and no data block
NameBytes(name) == name \o ZeroRun

Segments ==
    << \* 1: 'psx_gman_a', 2x2, complete
       RecordBytes(PsxMarker \o GmanMarker \o <<95, 97>>, 2, 2, 4),
       \* 2: 'psx_gman.BMP', a sibling file name
       NameBytes(PsxMarker \o GmanMarker \o BmpSuffix),
       \* 3: 'psx_b', 1x3, complete: a record carrying only the 'psx_' prefix
       RecordBytes(PsxMarker \o <<98>>, 1, 3, 3),
       \* 4: 'psx_gmanc', declared 2x2 with 2 index bytes: truncated pixel data
       RecordBytes(PsxMarker \o GmanMarker \o <<99>>, 2, 2, 2),
       \* 5: 'psx_gman\x00d\xe9', 1x1, complete: an embedded NUL and a non-ASCII byte
       RecordBytes(PsxMarker \o GmanMarker \o <<0, 100, 233>>, 1, 1, 1),
       \* 6: 'psx_gmane', a name with no data block
       NameBytes(PsxMarker \o GmanMarker \o <<101>>),
       \* 7: 'psx_gmanxy', a name with no terminator
       PsxMarker \o GmanMarker \o <<120, 121>>,
       \* 8: one byte of padding
       <<7>> >>

BuffersOf(n) ==
    {Concat([i \in 1..n |-> Segments[c[i]]]) : c \in [1..n -> 1..Len(Segments)]}

Buffers == UNION {BuffersOf(n) : n \in 0..MaxSegs}

----------------------------------------------------------------------------
(* Marker-scan pipeline: extract_textures, one action per way through the  *)
(* body of the while loop.                                                 *)

\* Line 67: the loop condition fails.
ScanExit ==
    /\ pc = "loop"
    /\ ~(start < Len(data))
    /\ pc' = "done"
    /\ UNCHANGED <<data, start, name_start, name_end, texture_name, texture_start,
                   texture_count, saved, iters>>
    /\ UNCHANGED <<palVars, viewVars>>

\* Lines 69-74: no name is found.
ScanNoName ==
    /\ pc = "loop"
    /\ start < Len(data)
    /\ NameStart(data, start) = -1
    /\ name_start' = -1
    /\ iters' = iters + 1
    /\ pc' = "done"
    /\ UNCHANGED <<data, start, name_end, texture_name, texture_start,
                   texture_count, saved>>
    /\ UNCHANGED <<palVars, viewVars>>

\* Lines 69-92: the name ends in '.BMP'.
ScanSkipBmp ==
    /\ pc = "loop"
    /\ start < Len(data)
    /\ NameStart(data, start) # -1
    /\ LET ns == NameStart(data, start)
           ne == NameEnd(data, ns)
           name == TextureName(data, ns, ne)
       IN /\ IsBmpName(name)
          /\ name_start' = ns
          /\ name_end' = ne
          /\ texture_name' = name
          /\ start' = ne
    /\ iters' = iters + 1
    /\ UNCHANGED <<data, texture_start, texture_count, saved, pc>>
    /\ UNCHANGED <<palVars, viewVars>>

\* Lines 69-104: the name is kept and no data sentinel follows it.
ScanNoSentinel ==
    /\ pc = "loop"
    /\ start < Len(data)
    /\ NameStart(data, start) # -1
    /\ LET ns == NameStart(data, start)
           ne == NameEnd(data, ns)
           name == TextureName(data, ns, ne)
       IN /\ ~IsBmpName(name)
          /\ Find(data, Sentinel, ne) = -1
          /\ name_start' = ns
          /\ name_end' = ne
          /\ texture_name' = name
          /\ start' = ne
          /\ texture_start' = -1
    /\ iters' = iters + 1
    /\ pc' = "done"
    /\ UNCHANGED <<data, texture_count, saved>>
    /\ UNCHANGED <<palVars, viewVars>>

\* Lines 69-147: the record decodes and its image is saved.  The test of line
\* 121 is kept: when it fails nothing is decoded and the loop goes on.
ScanSave ==
    /\ pc = "loop"
    /\ start < Len(data)
    /\ NameStart(data, start) # -1
    /\ LET ns == NameStart(data, start)
           ne == NameEnd(data, ns)
           name == TextureName(data, ns, ne)
           ts == Find(data, Sentinel, ne)
       IN /\ ~IsBmpName(name)
          /\ ts # -1
          /\ ts - 4 >= 0 => ~DecodeRaises(data, ts)
          /\ name_start' = ns
          /\ name_end' = ne
          /\ texture_name' = name
          /\ start' = ne
          /\ texture_start' = ts
          /\ IF ts - 4 >= 0
             THEN /\ saved' = Append(saved, SavedImage(data, ns, ts, name))
                  /\ texture_count' = texture_count + 1
             ELSE UNCHANGED <<saved, texture_count>>
    /\ iters' = iters + 1
    /\ UNCHANGED <<data, pc>>
    /\ UNCHANGED <<palVars, viewVars>>

\* Lines 69-136: extract_palette or extract_texture_indices raises; nothing
\* catches it, so extract_textures ends there.
ScanCrash ==
    /\ pc = "loop"
    /\ start < Len(data)
    /\ NameStart(data, start) # -1
    /\ LET ns == NameStart(data, start)
           ne == NameEnd(data, ns)
           name == TextureName(data, ns, ne)
           ts == Find(data, Sentinel, ne)
       IN /\ ~IsBmpName(name)
          /\ ts # -1
          /\ ts - 4 >= 0
          /\ DecodeRaises(data, ts)
          /\ name_start' = ns
          /\ name_end' = ne
          /\ texture_name' = name
          /\ start' = ne
          /\ texture_start' = ts
    /\ iters' = iters + 1
    /\ pc' = "crashed"
    /\ UNCHANGED <<data, texture_count, saved>>
    /\ UNCHANGED <<palVars, viewVars>>

\* Lines 69-145: the record decodes and image.save raises (a directory of
\* that name exists, the name holds a path separator, the disk is full);
\* nothing catches it, so extract_textures ends there with texture_count not
\* incremented.
ScanSaveFails ==
    /\ pc = "loop"
    /\ start < Len(data)
    /\ NameStart(data, start) # -1
    /\ LET ns == NameStart(data, start)
           ne == NameEnd(data, ns)
           name == TextureName(data, ns, ne)
           ts == Find(data, Sentinel, ne)
       IN /\ ~IsBmpName(name)
          /\ ts # -1
          /\ ts - 4 >= 0
          /\ ~DecodeRaises(data, ts)
          /\ name_start' = ns
          /\ name_end' = ne
          /\ texture_name' = name
          /\ start' = ne
          /\ texture_start' = ts
    /\ iters' = iters + 1
    /\ pc' = "save_failed"
    /\ UNCHANGED <<data, texture_count, saved>>
    /\ UNCHANGED <<palVars, viewVars>>

\* The locals of extract_textures before the loop (lines 60-64); a local not
\* yet assigned is -1 or empty.  The other pipelines are idle.
InitScan ==
    /\ data \in Buffers
    /\ start = 0
    /\ texture_count = 0
    /\ name_start = -1
    /\ name_end = -1
    /\ texture_name = <<>>
    /\ texture_start = -1
    /\ saved = <<>>
    /\ pc = "loop"
    /\ iters = 0
    /\ pal = <<>> /\ pal0 = <<>> /\ applied = 0
    /\ vdata = [loaded |-> FALSE, bytes |-> <<>>]
    /\ entries = <<>>
    /\ textures = <<>>
    /\ current_tex = 0
    /\ tex_list = [size |-> 0, sel |-> {}]
    /\ shown = <<>>
    /\ written = <<>>
    /\ dialog = <<>>
    /\ outcome = "ok"

extract_textures ==
    \/ ScanExit
    \/ ScanNoName
    \/ ScanSkipBmp
    \/ ScanNoSentinel
    \/ ScanSave
    \/ ScanSaveFails
    \/ ScanCrash

SpecScan == InitScan /\ [][extract_textures]_vars

----------------------------------------------------------------------------
(* ps2_palette_reformat (dol_png.py).                                      *)

DefaultS == 4

\* Faulty variant, used to test the sensitivity of the properties: the pass copies p[i - 8s] to p[i] instead of exchanging the two.
ReformatStepCopy(p, i, s) ==
    LET r == i % (32 * s)
    IN IF 16 * s <= r /\ r < 24 * s
       THEN [p EXCEPT ![i + 1] = p[i - 8 * s + 1]]
       ELSE p

\* One pass of the loop body for index i: p[i], p[i - 8s] = p[i - 8s], p[i]
\* when 16s <= i mod 32s < 24s.
ReformatStep(p, i, s) ==
    LET r == i % (32 * s)
    IN IF 16 * s <= r /\ r < 24 * s
       THEN [p EXCEPT ![i + 1] = p[i - 8 * s + 1], ![i - 8 * s + 1] = p[i + 1]]
       ELSE p

\* The loop passes for i = lo, lo + 1, ..., hi - 1, in that order: the
\* passes below mid, then (on their result, evaluated first) the passes from
\* mid on.
RECURSIVE ReformatRange(_, _, _, _)
ReformatRange(p, lo, hi, s) ==
    IF hi <= lo THEN p
    ELSE IF hi = lo + 1 THEN ReformatStep(p, lo, s)
    ELSE LET mid == (lo + hi) \div 2
             left == ReformatRange(p, lo, mid, s)
         IN IF Len(left) >= 0 THEN ReformatRange(left, mid, hi, s) ELSE left

\* for i in range(len(p)): ...
ps2_palette_reformat(palette, s) == ReformatRange(palette, 0, Len(palette), s)

(* The inputs of the swizzle: byte arrays of every length up to MaxPalLen, *)
(* and the 1024-byte palette whose quad i is (i, i, i, i).                 *)

MaxPalLen == 200
MaxApply == 2

PatternBytes(n) == [k \in 1..n |-> (7 * k + 3) % 256]

QuadPalette == [k \in 1..PaletteBytes |-> (k - 1) \div 4]

PalInputs == {PatternBytes(n) : n \in 0..MaxPalLen} \cup {QuadPalette}

InitPal ==
    /\ pal0 \in PalInputs
    /\ pal = pal0
    /\ applied = 0
    /\ data = <<>>
    /\ start = 0
    /\ texture_count = 0
    /\ name_start = -1
    /\ name_end = -1
    /\ texture_name = <<>>
    /\ texture_start = -1
    /\ saved = <<>>
    /\ pc = "done"
    /\ iters = 0
    /\ vdata = [loaded |-> FALSE, bytes |-> <<>>]
    /\ entries = <<>>
    /\ textures = <<>>
    /\ current_tex = 0
    /\ tex_list = [size |-> 0, sel |-> {}]
    /\ shown = <<>>
    /\ written = <<>>
    /\ dialog = <<>>
    /\ outcome = "ok"

Reformat ==
    /\ applied < MaxApply
    /\ pal' = ps2_palette_reformat(pal, DefaultS)
    /\ applied' = applied + 1
    /\ UNCHANGED <<pal0, scanVars, viewVars>>

SpecPal == InitPal /\ [][Reformat]_vars

----------------------------------------------------------------------------
(* Fixed-header pipeline (dol_png.py): header parsing.                     *)

\* HEADER_FIELDS, in order: name, offset, decode rule.
HEADER_FIELDS ==
    << <<"id", 0, "u32">>, <<"version", 4, "u32">>, <<"name", 8, "str">>,
       <<"length", 72, "u32">>, <<"eyeposition", 76, "vec">>, <<"min", 88, "vec">>,
       <<"max", 100, "vec">>, <<"bbmin", 112, "vec">>, <<"bbmax", 124, "vec">>,
       <<"flags", 136, "u32">>, <<"numbones", 140, "u32">>, <<"boneindex", 144, "u32">>,
       <<"numbonecontrollers", 148, "u32">>, <<"bonecontrollerindex", 152, "u32">>,
       <<"numhitboxes", 156, "u32">>, <<"hitboxindex", 160, "u32">>,
       <<"numseq", 164, "u32">>, <<"seqindex", 168, "u32">>,
       <<"numseqgroups", 172, "u32">>, <<"seqgroupindex", 176, "u32">>,
       <<"numtextures", 180, "u32">>, <<"textureindex", 184, "u32">>,
       <<"texturedataindex", 188, "u32">>, <<"numskinref", 192, "u32">>,
       <<"numskinfamilies", 196, "u32">>, <<"skinindex", 200, "u32">>,
       <<"numbodyparts", 204, "u32">>, <<"bodypartindex", 208, "u32">>,
       <<"numattachments", 212, "u32">>, <<"attachmentindex", 216, "u32">>,
       <<"soundtable", 220, "u32">>, <<"soundindex", 224, "u32">>,
       <<"soundgroups", 228, "u32">>, <<"soundgroupindex", 232, "u32">>,
       <<"numtransitions", 236, "u32">>, <<"transitionindex", 240, "u32">> >>

FieldNames == {HEADER_FIELDS[k][1] : k \in 1..Len(HEADER_FIELDS)}

\* struct.unpack_from(fmt, d, off) raises struct.error when the buffer is
\* shorter than off + size.
UnpackRaises(d, off, size) == off + size > Len(d)

\* struct.unpack_from("<I", d, off)[0]
U32(d, off) == d[off + 1] + 256 * d[off + 2] + 65536 * d[off + 3] + 16777216 * d[off + 4]

\* b.split(b"\x00")[0]: the bytes before the first NUL.
UntilNul(b) ==
    LET z == {k \in 1..Len(b) : b[k] = 0}
    IN IF z = {} THEN b ELSE SubSeq(b, 1, (CHOOSE k \in z : \A m \in z : k <= m) - 1)

\* A UTF-8 continuation byte, 0x80..0xBF.
IsContinuation(x) == 128 <= x /\ x <= 191

\* The second byte c2 cannot follow the lead byte c of a 3-byte sequence: it
\* is no continuation byte, or the sequence is overlong (E0 80..9F) or a
\* surrogate (ED A0..BF).
BadSecond3(c, c2) == ~IsContinuation(c2) \/ (IF c2 < 160 THEN c = 224 ELSE c = 237)

\* The same for a 4-byte sequence: overlong (F0 80..8F) or above U+10FFFF
\* (F4 90..BF).
BadSecond4(c, c2) == ~IsContinuation(c2) \/ (IF c2 < 144 THEN c = 240 ELSE c = 244)

\* The code points decoded from byte i of b on.  A well-formed sequence is
\* its code point; an invalid lead byte is dropped; a sequence broken by a
\* byte that cannot continue it is dropped up to that byte; a sequence cut
\* by the end of the input is dropped with the rest of the input.
RECURSIVE DecodeFrom(_, _)
DecodeFrom(b, i) ==
    IF i > Len(b) THEN <<>>
    ELSE LET c == b[i]
             av == Len(b) - i + 1
         IN IF c < 128 THEN <<c>> \o DecodeFrom(b, i + 1)
            ELSE IF c < 194 \/ c >= 245 THEN DecodeFrom(b, i + 1)
            ELSE IF av < 2 THEN <<>>
            ELSE IF c < 224
                 THEN IF ~IsContinuation(b[i + 1]) THEN DecodeFrom(b, i + 1)
                      ELSE <<(c - 192) * 64 + (b[i + 1] - 128)>> \o DecodeFrom(b, i + 2)
            ELSE IF c < 240
                 THEN IF BadSecond3(c, b[i + 1]) THEN DecodeFrom(b, i + 1)
                      ELSE IF av < 3 THEN <<>>
                      ELSE IF ~IsContinuation(b[i + 2]) THEN DecodeFrom(b, i + 2)
                      ELSE <<(c - 224) * 4096 + (b[i + 1] - 128) * 64 + (b[i + 2] - 128)>>
                               \o DecodeFrom(b, i + 3)
            ELSE IF BadSecond4(c, b[i + 1]) THEN DecodeFrom(b, i + 1)
                 ELSE IF av < 3 THEN <<>>
                 ELSE IF ~IsContinuation(b[i + 2]) THEN DecodeFrom(b, i + 2)
                 ELSE IF av < 4 THEN <<>>
                 ELSE IF ~IsContinuation(b[i + 3]) THEN DecodeFrom(b, i + 3)
                 ELSE <<(c - 240) * 262144 + (b[i + 1] - 128) * 4096
                            + (b[i + 2] - 128) * 64 + (b[i + 3] - 128)>>
                          \o DecodeFrom(b, i + 4)

\* bytes.decode(errors="ignore"): UTF-8, as a sequence of code points.
DecodeIgnore(b) == DecodeFrom(b, 1)

\* str(n) for a natural n, as character codes.
RECURSIVE ToDecimal(_)
ToDecimal(n) == IF n < 10 THEN <<48 + n>> ELSE ToDecimal(n \div 10) \o <<48 + (n % 10)>>

\* int(s) for a string of decimal digits.
RECURSIVE ParseInt(_)
ParseInt(str) ==
    IF Len(str) = 0 THEN 0
    ELSE 10 * ParseInt(SubSeq(str, 1, Len(str) - 1)) + (str[Len(str)] - 48)

RECURSIVE Pow2(_)
Pow2(n) == IF n = 0 THEN 1 ELSE 2 * Pow2(n - 1)

\* Twice the number whose decimal digits are ds, plus carry, as digits.
RECURSIVE DoubleDigits(_, _)
DoubleDigits(ds, carry) ==
    IF Len(ds) = 0 THEN (IF carry = 0 THEN <<>> ELSE <<carry>>)
    ELSE LET v == 2 * ds[Len(ds)] + carry
         IN DoubleDigits(SubSeq(ds, 1, Len(ds) - 1), v \div 10) \o <<v % 10>>

\* The digits of the number with digits ds, times 2^k.
RECURSIVE TimesPow2(_, _)
TimesPow2(ds, k) == IF k = 0 THEN ds ELSE TimesPow2(DoubleDigits(ds, 0), k - 1)

\* f"{x:.2f}" of the float unpacked by "<f" from the four bytes b: x is
\* m * 2^k exactly; its text is the decimal rounded to two places, ties to
\* even.  m * 100 is below 2^31.
FormatF2(b) ==
    LET neg == b[4] >= 128
        e == (b[4] % 128) * 2 + (b[3] \div 128)
        frac == (b[3] % 128) * 65536 + b[2] * 256 + b[1]
        m == IF e > 0 THEN frac + 8388608 ELSE frac
        k == (IF e > 0 THEN e ELSE 1) - 150
        n == m * 100
        q == n \div Pow2(-k)
        r == n % Pow2(-k)
        cents == IF -k <= 30
                 THEN IF r > Pow2(-k - 1) \/ (r = Pow2(-k - 1) /\ q % 2 = 1) THEN q + 1 ELSE q
                 ELSE IF -k = 31 /\ n > Pow2(30) THEN 1 ELSE 0
        whole == TimesPow2([j \in 1..Len(ToDecimal(m)) |-> ToDecimal(m)[j] - 48], k)
        body == IF k >= 0
                THEN [j \in 1..Len(whole) |-> 48 + whole[j]] \o <<46, 48, 48>>
                ELSE ToDecimal(cents \div 100)
                         \o <<46, 48 + ((cents % 100) \div 10), 48 + (cents % 10)>>
    IN IF e = 255
       THEN IF frac # 0 THEN <<110, 97, 110>>                 \* 'nan'
            ELSE IF neg THEN <<45, 105, 110, 102>>            \* '-inf'
            ELSE <<105, 110, 102>>                            \* 'inf'
       ELSE (IF neg THEN <<45>> ELSE <<>>) \o body

\* Lines 131-132: the text of the three floats at the start of b.
VecText(b) ==
    FormatF2(SubSeq(b, 1, 4)) \o <<44>> \o FormatF2(SubSeq(b, 5, 8))
        \o <<44>> \o FormatF2(SubSeq(b, 9, 12))

\* Lines 128-134: does decoding header field k raise, and what str(value) is
\* written to its Entry.
FieldRaises(d, k) ==
    LET kind == HEADER_FIELDS[k][3]
        off == HEADER_FIELDS[k][2]
    IN CASE kind = "u32" -> UnpackRaises(d, off, 4)
         [] kind = "vec" -> UnpackRaises(d, off, 12)
         [] OTHER -> FALSE

FieldText(d, k) ==
    LET kind == HEADER_FIELDS[k][3]
        off == HEADER_FIELDS[k][2]
    IN CASE kind = "u32" -> ToDecimal(U32(d, off))
         [] kind = "vec" -> VecText(Slice(d, off, off + 12))
         [] OTHER -> DecodeIgnore(UntilNul(Slice(d, off, off + 64)))

\* The number of header fields decoded before one raises.
FieldsParsed(d) ==
    LET bad == {k \in 1..Len(HEADER_FIELDS) : FieldRaises(d, k)}
    IN IF bad = {} THEN Len(HEADER_FIELDS)
       ELSE (CHOOSE k \in bad : \A m \in bad : k <= m) - 1

\* Lines 127-134: the texts of the fields decoded before one raises.
HeaderTexts(d) == [k \in 1..FieldsParsed(d) |-> FieldText(d, k)]

FieldIndex(f) == CHOOSE j \in 1..Len(HEADER_FIELDS) : HEADER_FIELDS[j][1] = f

\* Lines 135-136: the Entry widgets after the header loop wrote `texts`.
EntriesAfter(old, texts) ==
    [f \in FieldNames |-> IF FieldIndex(f) <= Len(texts) THEN texts[FieldIndex(f)] ELSE old[f]]

----------------------------------------------------------------------------
(* Fixed-header pipeline: the texture loop of load_mdl.                    *)

TexStride == 80
DataPad == 32

\* Lines 147-149: one of the three unpack_from calls of entry `base` raises.
TexHeaderRaises(d, base) ==
    \/ UnpackRaises(d, base + 64, 4)
    \/ UnpackRaises(d, base + 68, 4)
    \/ UnpackRaises(d, base + 72, 4)

\* Lines 145-162: the dictionary appended for the entry at `base`.
TexEntry(d, base, data_offset) ==
    [name |-> DecodeIgnore(UntilNul(Slice(d, base, base + 64))),
     flags |-> U32(d, base + 64),
     width |-> U32(d, base + 68),
     height |-> U32(d, base + 72),
     offset |-> data_offset,
     palette |-> ps2_palette_reformat(Slice(d, data_offset, data_offset + PaletteBytes),
                                      DefaultS)]

\* Faulty variant, used to test the sensitivity of the properties: the 32 bytes after the pixels are not skipped.
NextDataOffsetNoPad(data_offset, width, height) ==
    data_offset + PaletteBytes + (width * height)

\* Line 163.
NextDataOffset(data_offset, width, height) ==
    data_offset + PaletteBytes + DataPad + (width * height)

\* Lines 144-163 from entry i on: the list built, and whether an entry raised.
RECURSIVE TexLoop(_, _, _, _, _, _)
TexLoop(d, textureindex, numtextures, i, data_offset, acc) ==
    IF i >= numtextures THEN [textures |-> acc, raised |-> FALSE]
    ELSE IF TexHeaderRaises(d, textureindex + i * TexStride)
         THEN [textures |-> acc, raised |-> TRUE]
         ELSE LET t == TexEntry(d, textureindex + i * TexStride, data_offset)
              IN TexLoop(d, textureindex, numtextures, i + 1,
                         NextDataOffset(data_offset, t.width, t.height), Append(acc, t))

\* Lines 138-163, the three numbers read back from the texts just written to
\* the Entry widgets.
LoadTextures(d, texts) ==
    TexLoop(d, ParseInt(texts[FieldIndex("textureindex")]),
            ParseInt(texts[FieldIndex("numtextures")]), 0,
            ParseInt(texts[FieldIndex("texturedataindex")]) + DataPad, <<>>)

\* Lines 123-163 as a function of the file read: the header texts, and the
\* outcome of the texture loop when every header field was decoded.
LoadOutcome(d) ==
    [bytes |-> d,
     texts |-> HeaderTexts(d),
     complete |-> FieldsParsed(d) = Len(HEADER_FIELDS),
     result |-> IF FieldsParsed(d) = Len(HEADER_FIELDS)
                THEN LoadTextures(d, HeaderTexts(d))
                ELSE [textures |-> <<>>, raised |-> TRUE]]

----------------------------------------------------------------------------
(* Fixed-header pipeline: images.                                          *)

\* tuple(palette_raw[i:i + 3]) for i in range(0, 1024, 4)
QuadPrefix(palette_raw, q) == Slice(palette_raw, 4 * q, 4 * q + 3)

\* Lines 230-238.  The result is <<>> for None and <<image>> otherwise.
\* Image.new gives a black image and putdata fills its first len(pixels)
\* pixels, so pixels the file does not hold stay black; putdata raises on a
\* colour that is not a triple.
get_texture_image(tex, d) ==
    LET pixel_data == Slice(d, tex.offset + PaletteBytes,
                            tex.offset + PaletteBytes + tex.width * tex.height)
        pixels == [k \in 1..Len(pixel_data) |-> QuadPrefix(tex.palette, pixel_data[k] % NumColors)]
    IN IF \E k \in 1..Len(pixels) : Len(pixels[k]) # 3
       THEN <<>>
       ELSE << [width |-> tex.width,
                height |-> tex.height,
                pixels |-> [k \in 1..(tex.width * tex.height) |->
                               IF k <= Len(pixels) THEN pixels[k] ELSE <<0, 0, 0>>]] >>

\* str.lower(): the simple lower-case mappings of the Unicode database,
\* <<first, last, step, delta>>: code point first + j * step <= last maps to
\* itself + delta.
LowerRanges ==
    <<
       <<65, 90, 1, 32>>, <<192, 214, 1, 32>>, <<216, 222, 1, 32>>, <<256, 302, 2, 1>>,
       <<306, 310, 2, 1>>, <<313, 327, 2, 1>>, <<330, 374, 2, 1>>, <<376, 376, 1, -121>>,
       <<377, 381, 2, 1>>, <<385, 385, 1, 210>>, <<386, 388, 2, 1>>, <<390, 390, 1, 206>>,
       <<391, 391, 1, 1>>, <<393, 394, 1, 205>>, <<395, 395, 1, 1>>, <<398, 398, 1, 79>>,
       <<399, 399, 1, 202>>, <<400, 400, 1, 203>>, <<401, 401, 1, 1>>, <<403, 403, 1, 205>>,
       <<404, 404, 1, 207>>, <<406, 406, 1, 211>>, <<407, 407, 1, 209>>, <<408, 408, 1, 1>>,
       <<412, 412, 1, 211>>, <<413, 413, 1, 213>>, <<415, 415, 1, 214>>, <<416, 420, 2, 1>>,
       <<422, 422, 1, 218>>, <<423, 423, 1, 1>>, <<425, 425, 1, 218>>, <<428, 428, 1, 1>>,
       <<430, 430, 1, 218>>, <<431, 431, 1, 1>>, <<433, 434, 1, 217>>, <<435, 437, 2, 1>>,
       <<439, 439, 1, 219>>, <<440, 440, 1, 1>>, <<444, 444, 1, 1>>, <<452, 452, 1, 2>>,
       <<453, 453, 1, 1>>, <<455, 455, 1, 2>>, <<456, 456, 1, 1>>, <<458, 458, 1, 2>>,
       <<459, 475, 2, 1>>, <<478, 494, 2, 1>>, <<497, 497, 1, 2>>, <<498, 500, 2, 1>>,
       <<502, 502, 1, -97>>, <<503, 503, 1, -56>>, <<504, 542, 2, 1>>, <<544, 544, 1, -130>>,
       <<546, 562, 2, 1>>, <<570, 570, 1, 10795>>, <<571, 571, 1, 1>>, <<573, 573, 1, -163>>,
       <<574, 574, 1, 10792>>, <<577, 577, 1, 1>>, <<579, 579, 1, -195>>, <<580, 580, 1, 69>>,
       <<581, 581, 1, 71>>, <<582, 590, 2, 1>>, <<880, 882, 2, 1>>, <<886, 886, 1, 1>>,
       <<895, 895, 1, 116>>, <<902, 902, 1, 38>>, <<904, 906, 1, 37>>, <<908, 908, 1, 64>>,
       <<910, 911, 1, 63>>, <<913, 929, 1, 32>>, <<931, 939, 1, 32>>, <<975, 975, 1, 8>>,
       <<984, 1006, 2, 1>>, <<1012, 1012, 1, -60>>, <<1015, 1015, 1, 1>>, <<1017, 1017, 1, -7>>,
       <<1018, 1018, 1, 1>>, <<1021, 1023, 1, -130>>, <<1024, 1039, 1, 80>>, <<1040, 1071, 1, 32>>,
       <<1120, 1152, 2, 1>>, <<1162, 1214, 2, 1>>, <<1216, 1216, 1, 15>>, <<1217, 1229, 2, 1>>,
       <<1232, 1326, 2, 1>>, <<1329, 1366, 1, 48>>, <<4256, 4293, 1, 7264>>, <<4295, 4295, 1, 7264>>,
       <<4301, 4301, 1, 7264>>, <<5024, 5103, 1, 38864>>, <<5104, 5109, 1, 8>>, <<7312, 7354, 1, -3008>>,
       <<7357, 7359, 1, -3008>>, <<7680, 7828, 2, 1>>, <<7838, 7838, 1, -7615>>, <<7840, 7934, 2, 1>>,
       <<7944, 7951, 1, -8>>, <<7960, 7965, 1, -8>>, <<7976, 7983, 1, -8>>, <<7992, 7999, 1, -8>>,
       <<8008, 8013, 1, -8>>, <<8025, 8031, 2, -8>>, <<8040, 8047, 1, -8>>, <<8072, 8079, 1, -8>>,
       <<8088, 8095, 1, -8>>, <<8104, 8111, 1, -8>>, <<8120, 8121, 1, -8>>, <<8122, 8123, 1, -74>>,
       <<8124, 8124, 1, -9>>, <<8136, 8139, 1, -86>>, <<8140, 8140, 1, -9>>, <<8152, 8153, 1, -8>>,
       <<8154, 8155, 1, -100>>, <<8168, 8169, 1, -8>>, <<8170, 8171, 1, -112>>, <<8172, 8172, 1, -7>>,
       <<8184, 8185, 1, -128>>, <<8186, 8187, 1, -126>>, <<8188, 8188, 1, -9>>, <<8486, 8486, 1, -7517>>,
       <<8490, 8490, 1, -8383>>, <<8491, 8491, 1, -8262>>, <<8498, 8498, 1, 28>>, <<8544, 8559, 1, 16>>,
       <<8579, 8579, 1, 1>>, <<9398, 9423, 1, 26>>, <<11264, 11311, 1, 48>>, <<11360, 11360, 1, 1>>,
       <<11362, 11362, 1, -10743>>, <<11363, 11363, 1, -3814>>, <<11364, 11364, 1, -10727>>, <<11367, 11371, 2, 1>>,
       <<11373, 11373, 1, -10780>>, <<11374, 11374, 1, -10749>>, <<11375, 11375, 1, -10783>>, <<11376, 11376, 1, -10782>>,
       <<11378, 11378, 1, 1>>, <<11381, 11381, 1, 1>>, <<11390, 11391, 1, -10815>>, <<11392, 11490, 2, 1>>,
       <<11499, 11501, 2, 1>>, <<11506, 11506, 1, 1>>, <<42560, 42604, 2, 1>>, <<42624, 42650, 2, 1>>,
       <<42786, 42798, 2, 1>>, <<42802, 42862, 2, 1>>, <<42873, 42875, 2, 1>>, <<42877, 42877, 1, -35332>>,
       <<42878, 42886, 2, 1>>, <<42891, 42891, 1, 1>>, <<42893, 42893, 1, -42280>>, <<42896, 42898, 2, 1>>,
       <<42902, 42920, 2, 1>>, <<42922, 42922, 1, -42308>>, <<42923, 42923, 1, -42319>>, <<42924, 42924, 1, -42315>>,
       <<42925, 42925, 1, -42305>>, <<42926, 42926, 1, -42308>>, <<42928, 42928, 1, -42258>>, <<42929, 42929, 1, -42282>>,
       <<42930, 42930, 1, -42261>>, <<42931, 42931, 1, 928>>, <<42932, 42946, 2, 1>>, <<42948, 42948, 1, -48>>,
       <<42949, 42949, 1, -42307>>, <<42950, 42950, 1, -35384>>, <<42951, 42953, 2, 1>>, <<42960, 42960, 1, 1>>,
       <<42966, 42968, 2, 1>>, <<42997, 42997, 1, 1>>, <<65313, 65338, 1, 32>>, <<66560, 66599, 1, 40>>,
       <<66736, 66771, 1, 40>>, <<66928, 66938, 1, 39>>, <<66940, 66954, 1, 39>>, <<66956, 66962, 1, 39>>,
       <<66964, 66965, 1, 39>>, <<68736, 68786, 1, 64>>, <<71840, 71871, 1, 32>>, <<93760, 93791, 1, 32>>,
       <<125184, 125217, 1, 34>>
    >>

\* The case-ignorable code points, <<first, last>>.
CaseIgnorableRanges ==
    <<
       <<39, 39>>, <<46, 46>>, <<58, 58>>, <<94, 94>>, <<96, 96>>, <<168, 168>>,
       <<173, 173>>, <<175, 175>>, <<180, 180>>, <<183, 184>>, <<688, 879>>, <<884, 885>>,
       <<890, 890>>, <<900, 901>>, <<903, 903>>, <<1155, 1161>>, <<1369, 1369>>, <<1375, 1375>>,
       <<1425, 1469>>, <<1471, 1471>>, <<1473, 1474>>, <<1476, 1477>>, <<1479, 1479>>, <<1524, 1524>>,
       <<1536, 1541>>, <<1552, 1562>>, <<1564, 1564>>, <<1600, 1600>>, <<1611, 1631>>, <<1648, 1648>>,
       <<1750, 1757>>, <<1759, 1768>>, <<1770, 1773>>, <<1807, 1807>>, <<1809, 1809>>, <<1840, 1866>>,
       <<1958, 1968>>, <<2027, 2037>>, <<2042, 2042>>, <<2045, 2045>>, <<2070, 2093>>, <<2137, 2139>>,
       <<2184, 2184>>, <<2192, 2193>>, <<2200, 2207>>, <<2249, 2306>>, <<2362, 2362>>, <<2364, 2364>>,
       <<2369, 2376>>, <<2381, 2381>>, <<2385, 2391>>, <<2402, 2403>>, <<2417, 2417>>, <<2433, 2433>>,
       <<2492, 2492>>, <<2497, 2500>>, <<2509, 2509>>, <<2530, 2531>>, <<2558, 2558>>, <<2561, 2562>>,
       <<2620, 2620>>, <<2625, 2626>>, <<2631, 2632>>, <<2635, 2637>>, <<2641, 2641>>, <<2672, 2673>>,
       <<2677, 2677>>, <<2689, 2690>>, <<2748, 2748>>, <<2753, 2757>>, <<2759, 2760>>, <<2765, 2765>>,
       <<2786, 2787>>, <<2810, 2815>>, <<2817, 2817>>, <<2876, 2876>>, <<2879, 2879>>, <<2881, 2884>>,
       <<2893, 2893>>, <<2901, 2902>>, <<2914, 2915>>, <<2946, 2946>>, <<3008, 3008>>, <<3021, 3021>>,
       <<3072, 3072>>, <<3076, 3076>>, <<3132, 3132>>, <<3134, 3136>>, <<3142, 3144>>, <<3146, 3149>>,
       <<3157, 3158>>, <<3170, 3171>>, <<3201, 3201>>, <<3260, 3260>>, <<3263, 3263>>, <<3270, 3270>>,
       <<3276, 3277>>, <<3298, 3299>>, <<3328, 3329>>, <<3387, 3388>>, <<3393, 3396>>, <<3405, 3405>>,
       <<3426, 3427>>, <<3457, 3457>>, <<3530, 3530>>, <<3538, 3540>>, <<3542, 3542>>, <<3633, 3633>>,
       <<3636, 3642>>, <<3654, 3662>>, <<3761, 3761>>, <<3764, 3772>>, <<3782, 3782>>, <<3784, 3789>>,
       <<3864, 3865>>, <<3893, 3893>>, <<3895, 3895>>, <<3897, 3897>>, <<3953, 3966>>, <<3968, 3972>>,
       <<3974, 3975>>, <<3981, 3991>>, <<3993, 4028>>, <<4038, 4038>>, <<4141, 4144>>, <<4146, 4151>>,
       <<4153, 4154>>, <<4157, 4158>>, <<4184, 4185>>, <<4190, 4192>>, <<4209, 4212>>, <<4226, 4226>>,
       <<4229, 4230>>, <<4237, 4237>>, <<4253, 4253>>, <<4348, 4348>>, <<4957, 4959>>, <<5906, 5908>>,
       <<5938, 5939>>, <<5970, 5971>>, <<6002, 6003>>, <<6068, 6069>>, <<6071, 6077>>, <<6086, 6086>>,
       <<6089, 6099>>, <<6103, 6103>>, <<6109, 6109>>, <<6155, 6159>>, <<6211, 6211>>, <<6277, 6278>>,
       <<6313, 6313>>, <<6432, 6434>>, <<6439, 6440>>, <<6450, 6450>>, <<6457, 6459>>, <<6679, 6680>>,
       <<6683, 6683>>, <<6742, 6742>>, <<6744, 6750>>, <<6752, 6752>>, <<6754, 6754>>, <<6757, 6764>>,
       <<6771, 6780>>, <<6783, 6783>>, <<6823, 6823>>, <<6832, 6862>>, <<6912, 6915>>, <<6964, 6964>>,
       <<6966, 6970>>, <<6972, 6972>>, <<6978, 6978>>, <<7019, 7027>>, <<7040, 7041>>, <<7074, 7077>>,
       <<7080, 7081>>, <<7083, 7085>>, <<7142, 7142>>, <<7144, 7145>>, <<7149, 7149>>, <<7151, 7153>>,
       <<7212, 7219>>, <<7222, 7223>>, <<7288, 7293>>, <<7376, 7378>>, <<7380, 7392>>, <<7394, 7400>>,
       <<7405, 7405>>, <<7412, 7412>>, <<7416, 7417>>, <<7468, 7530>>, <<7544, 7544>>, <<7579, 7679>>,
       <<8125, 8125>>, <<8127, 8129>>, <<8141, 8143>>, <<8157, 8159>>, <<8173, 8175>>, <<8189, 8190>>,
       <<8203, 8207>>, <<8216, 8217>>, <<8228, 8228>>, <<8231, 8231>>, <<8234, 8238>>, <<8288, 8292>>,
       <<8294, 8303>>, <<8305, 8305>>, <<8319, 8319>>, <<8336, 8348>>, <<8400, 8432>>, <<11388, 11389>>,
       <<11503, 11505>>, <<11631, 11631>>, <<11647, 11647>>, <<11744, 11775>>, <<11823, 11823>>, <<12293, 12293>>,
       <<12330, 12333>>, <<12337, 12341>>, <<12347, 12347>>, <<12441, 12446>>, <<12540, 12542>>, <<40981, 40981>>,
       <<42232, 42237>>, <<42508, 42508>>, <<42607, 42610>>, <<42612, 42621>>, <<42623, 42623>>, <<42652, 42655>>,
       <<42736, 42737>>, <<42752, 42785>>, <<42864, 42864>>, <<42888, 42890>>, <<42994, 42996>>, <<43000, 43001>>,
       <<43010, 43010>>, <<43014, 43014>>, <<43019, 43019>>, <<43045, 43046>>, <<43052, 43052>>, <<43204, 43205>>,
       <<43232, 43249>>, <<43263, 43263>>, <<43302, 43309>>, <<43335, 43345>>, <<43392, 43394>>, <<43443, 43443>>,
       <<43446, 43449>>, <<43452, 43453>>, <<43471, 43471>>, <<43493, 43494>>, <<43561, 43566>>, <<43569, 43570>>,
       <<43573, 43574>>, <<43587, 43587>>, <<43596, 43596>>, <<43632, 43632>>, <<43644, 43644>>, <<43696, 43696>>,
       <<43698, 43700>>, <<43703, 43704>>, <<43710, 43711>>, <<43713, 43713>>, <<43741, 43741>>, <<43756, 43757>>,
       <<43763, 43764>>, <<43766, 43766>>, <<43867, 43871>>, <<43881, 43883>>, <<44005, 44005>>, <<44008, 44008>>,
       <<44013, 44013>>, <<64286, 64286>>, <<64434, 64450>>, <<65024, 65039>>, <<65043, 65043>>, <<65056, 65071>>,
       <<65106, 65106>>, <<65109, 65109>>, <<65279, 65279>>, <<65287, 65287>>, <<65294, 65294>>, <<65306, 65306>>,
       <<65342, 65342>>, <<65344, 65344>>, <<65392, 65392>>, <<65438, 65439>>, <<65507, 65507>>, <<65529, 65531>>,
       <<66045, 66045>>, <<66272, 66272>>, <<66422, 66426>>, <<67456, 67461>>, <<67463, 67504>>, <<67506, 67514>>,
       <<68097, 68099>>, <<68101, 68102>>, <<68108, 68111>>, <<68152, 68154>>, <<68159, 68159>>, <<68325, 68326>>,
       <<68900, 68903>>, <<69291, 69292>>, <<69446, 69456>>, <<69506, 69509>>, <<69633, 69633>>, <<69688, 69702>>,
       <<69744, 69744>>, <<69747, 69748>>, <<69759, 69761>>, <<69811, 69814>>, <<69817, 69818>>, <<69821, 69821>>,
       <<69826, 69826>>, <<69837, 69837>>, <<69888, 69890>>, <<69927, 69931>>, <<69933, 69940>>, <<70003, 70003>>,
       <<70016, 70017>>, <<70070, 70078>>, <<70089, 70092>>, <<70095, 70095>>, <<70191, 70193>>, <<70196, 70196>>,
       <<70198, 70199>>, <<70206, 70206>>, <<70367, 70367>>, <<70371, 70378>>, <<70400, 70401>>, <<70459, 70460>>,
       <<70464, 70464>>, <<70502, 70508>>, <<70512, 70516>>, <<70712, 70719>>, <<70722, 70724>>, <<70726, 70726>>,
       <<70750, 70750>>, <<70835, 70840>>, <<70842, 70842>>, <<70847, 70848>>, <<70850, 70851>>, <<71090, 71093>>,
       <<71100, 71101>>, <<71103, 71104>>, <<71132, 71133>>, <<71219, 71226>>, <<71229, 71229>>, <<71231, 71232>>,
       <<71339, 71339>>, <<71341, 71341>>, <<71344, 71349>>, <<71351, 71351>>, <<71453, 71455>>, <<71458, 71461>>,
       <<71463, 71467>>, <<71727, 71735>>, <<71737, 71738>>, <<71995, 71996>>, <<71998, 71998>>, <<72003, 72003>>,
       <<72148, 72151>>, <<72154, 72155>>, <<72160, 72160>>, <<72193, 72202>>, <<72243, 72248>>, <<72251, 72254>>,
       <<72263, 72263>>, <<72273, 72278>>, <<72281, 72283>>, <<72330, 72342>>, <<72344, 72345>>, <<72752, 72758>>,
       <<72760, 72765>>, <<72767, 72767>>, <<72850, 72871>>, <<72874, 72880>>, <<72882, 72883>>, <<72885, 72886>>,
       <<73009, 73014>>, <<73018, 73018>>, <<73020, 73021>>, <<73023, 73029>>, <<73031, 73031>>, <<73104, 73105>>,
       <<73109, 73109>>, <<73111, 73111>>, <<73459, 73460>>, <<78896, 78904>>, <<92912, 92916>>, <<92976, 92982>>,
       <<92992, 92995>>, <<94031, 94031>>, <<94095, 94111>>, <<94176, 94177>>, <<94179, 94180>>, <<110576, 110579>>,
       <<110581, 110587>>, <<110589, 110590>>, <<113821, 113822>>, <<113824, 113827>>, <<118528, 118573>>, <<118576, 118598>>,
       <<119143, 119145>>, <<119155, 119170>>, <<119173, 119179>>, <<119210, 119213>>, <<119362, 119364>>, <<121344, 121398>>,
       <<121403, 121452>>, <<121461, 121461>>, <<121476, 121476>>, <<121499, 121503>>, <<121505, 121519>>, <<122880, 122886>>,
       <<122888, 122904>>, <<122907, 122913>>, <<122915, 122916>>, <<122918, 122922>>, <<123184, 123197>>, <<123566, 123566>>,
       <<123628, 123631>>, <<125136, 125142>>, <<125252, 125259>>, <<127995, 127999>>, <<917505, 917505>>, <<917536, 917631>>,
       <<917760, 917999>>
    >>

\* The cased code points that are not case-ignorable, <<first, last>>.
CasedRanges ==
    <<
       <<65, 90>>, <<97, 122>>, <<170, 170>>, <<181, 181>>, <<186, 186>>, <<192, 214>>,
       <<216, 246>>, <<248, 442>>, <<444, 447>>, <<452, 659>>, <<661, 687>>, <<880, 883>>,
       <<886, 887>>, <<891, 893>>, <<895, 895>>, <<902, 902>>, <<904, 906>>, <<908, 908>>,
       <<910, 929>>, <<931, 1013>>, <<1015, 1153>>, <<1162, 1327>>, <<1329, 1366>>, <<1376, 1416>>,
       <<4256, 4293>>, <<4295, 4295>>, <<4301, 4301>>, <<4304, 4346>>, <<4349, 4351>>, <<5024, 5109>>,
       <<5112, 5117>>, <<7296, 7304>>, <<7312, 7354>>, <<7357, 7359>>, <<7424, 7467>>, <<7531, 7543>>,
       <<7545, 7578>>, <<7680, 7957>>, <<7960, 7965>>, <<7968, 8005>>, <<8008, 8013>>, <<8016, 8023>>,
       <<8025, 8025>>, <<8027, 8027>>, <<8029, 8029>>, <<8031, 8061>>, <<8064, 8116>>, <<8118, 8124>>,
       <<8126, 8126>>, <<8130, 8132>>, <<8134, 8140>>, <<8144, 8147>>, <<8150, 8155>>, <<8160, 8172>>,
       <<8178, 8180>>, <<8182, 8188>>, <<8450, 8450>>, <<8455, 8455>>, <<8458, 8467>>, <<8469, 8469>>,
       <<8473, 8477>>, <<8484, 8484>>, <<8486, 8486>>, <<8488, 8488>>, <<8490, 8493>>, <<8495, 8500>>,
       <<8505, 8505>>, <<8508, 8511>>, <<8517, 8521>>, <<8526, 8526>>, <<8544, 8575>>, <<8579, 8580>>,
       <<9398, 9449>>, <<11264, 11387>>, <<11390, 11492>>, <<11499, 11502>>, <<11506, 11507>>, <<11520, 11557>>,
       <<11559, 11559>>, <<11565, 11565>>, <<42560, 42605>>, <<42624, 42651>>, <<42786, 42863>>, <<42865, 42887>>,
       <<42891, 42894>>, <<42896, 42954>>, <<42960, 42961>>, <<42963, 42963>>, <<42965, 42969>>, <<42997, 42998>>,
       <<43002, 43002>>, <<43824, 43866>>, <<43872, 43880>>, <<43888, 43967>>, <<64256, 64262>>, <<64275, 64279>>,
       <<65313, 65338>>, <<65345, 65370>>, <<66560, 66639>>, <<66736, 66771>>, <<66776, 66811>>, <<66928, 66938>>,
       <<66940, 66954>>, <<66956, 66962>>, <<66964, 66965>>, <<66967, 66977>>, <<66979, 66993>>, <<66995, 67001>>,
       <<67003, 67004>>, <<68736, 68786>>, <<68800, 68850>>, <<71840, 71903>>, <<93760, 93823>>, <<119808, 119892>>,
       <<119894, 119964>>, <<119966, 119967>>, <<119970, 119970>>, <<119973, 119974>>, <<119977, 119980>>, <<119982, 119993>>,
       <<119995, 119995>>, <<119997, 120003>>, <<120005, 120069>>, <<120071, 120074>>, <<120077, 120084>>, <<120086, 120092>>,
       <<120094, 120121>>, <<120123, 120126>>, <<120128, 120132>>, <<120134, 120134>>, <<120138, 120144>>, <<120146, 120485>>,
       <<120488, 120512>>, <<120514, 120538>>, <<120540, 120570>>, <<120572, 120596>>, <<120598, 120628>>, <<120630, 120654>>,
       <<120656, 120686>>, <<120688, 120712>>, <<120714, 120744>>, <<120746, 120770>>, <<120772, 120779>>, <<122624, 122633>>,
       <<122635, 122654>>, <<125184, 125251>>, <<127280, 127305>>, <<127312, 127337>>, <<127344, 127369>>
    >>

InRanges(c, tbl) == \E k \in 1..Len(tbl) : tbl[k][1] <= c /\ c <= tbl[k][2]

LowerDelta(c) ==
    LET hit == {k \in 1..Len(LowerRanges) :
                   /\ LowerRanges[k][1] <= c /\ c <= LowerRanges[k][2]
                   /\ (c - LowerRanges[k][1]) % LowerRanges[k][3] = 0}
    IN IF hit = {} THEN 0 ELSE LowerRanges[CHOOSE k \in hit : TRUE][4]

\* The capital sigma at position i of str ends a word: the nearest character
\* before it that is not case-ignorable is cased, and the nearest one after
\* it, if any, is not.
FinalSigma(str, i) ==
    LET before == {j \in 1..(i - 1) : ~InRanges(str[j], CaseIgnorableRanges)}
        after == {j \in (i + 1)..Len(str) : ~InRanges(str[j], CaseIgnorableRanges)}
    IN /\ before # {}
       /\ InRanges(str[CHOOSE j \in before : \A m \in before : m <= j], CasedRanges)
       /\ \/ after = {}
          \/ ~InRanges(str[CHOOSE j \in after : \A m \in after : j <= m], CasedRanges)

\* The lower case of character i of str: U+03A3 is a final or a medial
\* sigma, U+0130 becomes two characters.
LowerChar(str, i) ==
    IF str[i] = 931 THEN (IF FinalSigma(str, i) THEN <<962>> ELSE <<963>>)
    ELSE IF str[i] = 304 THEN <<105, 775>>
    ELSE <<str[i] + LowerDelta(str[i])>>

\* str.lower()
Lower(str) == Concat([i \in 1..Len(str) |-> LowerChar(str, i)])

\* str.replace('.bmp', '')
RECURSIVE StripBmp(_)
StripBmp(str) ==
    IF Len(str) = 0 THEN str
    ELSE IF Len(str) >= 4 /\ SubSeq(str, 1, 4) = BmpExt THEN StripBmp(SubSeq(str, 5, Len(str)))
    ELSE <<Head(str)>> \o StripBmp(Tail(str))

PngExt == <<46, 112, 110, 103>>                      \* '.png'
TexturePrefix == <<116, 101, 120, 116, 117, 114, 101, 95>>   \* 'texture_'

\* Lines 262 and 281.
PngName(name) == StripBmp(Lower(name)) \o PngExt

\* Lines 276-283 from texture i on, `count` files written before.
RECURSIVE SaveAllFrom(_, _, _, _)
SaveAllFrom(texs, d, i, count) ==
    IF i > Len(texs) THEN <<>>
    ELSE LET img == get_texture_image(texs[i], d)
             safe_name == IF texs[i].name # <<>> THEN texs[i].name
                          ELSE TexturePrefix \o ToDecimal(count)
         IN IF img # <<>>
            THEN <<[file |-> PngName(safe_name), tex |-> i - 1, image |-> img[1]]>>
                     \o SaveAllFrom(texs, d, i + 1, count + 1)
            ELSE SaveAllFrom(texs, d, i + 1, count)

\* winfo_width() and winfo_height() of the canvas: the window as laid out,
\* and 1 x 1 before the canvas is mapped.
CanvasSizes == {<<400, 300>>, <<1, 1>>}

\* 2^e mod n
RECURSIVE PowMod(_, _)
PowMod(e, n) == IF e = 0 THEN 1 % n ELSE (2 * PowMod(e - 1, n)) % n

\* The least j with 2^j >= n.
RECURSIVE CeilLog2(_)
CeilLog2(n) == IF n <= 1 THEN 0 ELSE 1 + CeilLog2((n + 1) \div 2)

\* canvas_h * (1 / canvas_h) in double arithmetic is below 1.0: the quotient
\* 1 / canvas_h is rounded down to 53 bits by more than a quarter of the
\* last place of the product (49 is the least such canvas_h).
TieBelowOne(ch) ==
    LET j == CeilLog2(ch)
        rem == PowMod(52 + j, ch)
    IN /\ Pow2(j) # ch
       /\ Pow2(j - 2) < rem
       /\ 2 * rem < ch

\* Lines 198-208: img.resize raises ValueError when new_w or new_h is 0.
\* With img_ratio > canvas_ratio, new_h = int(canvas_w / img_ratio) is 0
\* when canvas_w * height < width; otherwise new_w = int(canvas_h * img_ratio)
\* is 0 when canvas_h * width < height, or when the two are equal and the
\* float product falls below 1.0.
ResizeRaises(w, h, cw, ch) ==
    IF w * ch > cw * h
    THEN cw * h < w
    ELSE ch * w < h \/ (ch * w = h /\ TieBelowOne(ch))

\* Lines 189-223: how render_texture ends and what the canvas shows after it,
\* the canvas being cw x ch.
RenderOutcome(texs, vd, cur, cw, ch) ==
    IF texs = <<>> \/ ~vd.loaded THEN "ok"
    ELSE IF ~(cur < Len(texs)) THEN "IndexError"
    ELSE IF get_texture_image(texs[cur + 1], vd.bytes) = <<>> THEN "ok"
    ELSE IF texs[cur + 1].height = 0 THEN "ZeroDivisionError"
    ELSE IF ResizeRaises(texs[cur + 1].width, texs[cur + 1].height, cw, ch) THEN "ValueError"
    ELSE "ok"

RenderShown(old, texs, vd, cur, cw, ch) ==
    IF RenderOutcome(texs, vd, cur, cw, ch) # "ok" THEN old
    ELSE IF texs = <<>> \/ ~vd.loaded THEN old
    ELSE LET img == get_texture_image(texs[cur + 1], vd.bytes)
         IN IF img = <<>> THEN old
            ELSE <<[tex |-> cur, name |-> texs[cur + 1].name, image |-> img[1]]>>

----------------------------------------------------------------------------
(* Fixed-header pipeline: the input files.                                 *)
(*                                                                         *)
(* A file declares n <= MaxTex textures: the 244-byte header, n 80-byte    *)
(* texture entries at offset 244, and the data blob: 32 bytes, then per    *)
(* texture 1024 palette bytes, width*height index bytes and 32 bytes.      *)
(* Beside the complete files there are files cut short in the header, in   *)
(* the last texture entry, in the last palette and in the last pixels.     *)

MaxTex == 2
HeaderLen == 244

Zeros(n) == [k \in 1..n |-> 0]

LE32(v) == <<v % 256, (v \div 256) % 256, (v \div 65536) % 256, v \div 16777216>>

FileWidth(i) == 1 + (i % 2)
FileHeight(i) == 2 + (i % 3)

\* 'T<i>.BMP', then the UTF-8 bytes of U+00C9 and '<i>.BMP', then an empty name
FileTexName(i) ==
    IF i % 3 = 2 THEN <<>>
    ELSE IF i % 3 = 1 THEN <<195, 137, 48 + (i % 10)>> \o BmpSuffix
    ELSE <<84, 48 + (i % 10)>> \o BmpSuffix

FileHeader(n) ==
    Zeros(8) \o GmanMarker \o Zeros(64)
        \o <<0, 0, 192, 63>> \o <<0, 0, 32, 193>> \o <<0, 0, 128, 127>>   \* 1.5, -10.0, inf
        \o Zeros(92)
        \o LE32(n) \o LE32(HeaderLen) \o LE32(HeaderLen + TexStride * n)
        \o Zeros(HeaderLen - 192)

FileTexHeader(i) ==
    FileTexName(i) \o Zeros(64 - Len(FileTexName(i)))
        \o LE32(i) \o LE32(FileWidth(i)) \o LE32(FileHeight(i)) \o LE32(0)

FilePalette(i) == [k \in 1..PaletteBytes |-> ((k - 1) * (2 * i + 3) + i) % 256]

FilePixels(i) == [k \in 1..(FileWidth(i) * FileHeight(i)) |-> (5 * k + i) % 256]

FileTexBlock(i) == FilePalette(i) \o FilePixels(i) \o Zeros(DataPad)

DolFile(n) ==
    FileHeader(n)
        \o Concat([k \in 1..n |-> FileTexHeader(k - 1)])
        \o Zeros(DataPad)
        \o Concat([k \in 1..n |-> FileTexBlock(k - 1)])

LastPixels(n) == FileWidth(n - 1) * FileHeight(n - 1)

HeaderCut == SubSeq(DolFile(0), 1, 200)
TexHeaderCut(n) == SubSeq(DolFile(n), 1, HeaderLen + TexStride * (n - 1) + 70)
PaletteCut(n) == SubSeq(DolFile(n), 1, Len(DolFile(n)) - DataPad - LastPixels(n) - 500)
PixelCut(n) == SubSeq(DolFile(n), 1, Len(DolFile(n)) - DataPad - 1)

DolFiles ==
    [n \in 1..(MaxTex + 1) |-> DolFile(n - 1)]
        \o <<HeaderCut>>
        \o [n \in 1..MaxTex |-> TexHeaderCut(n)]
        \o <<PaletteCut(MaxTex), PixelCut(MaxTex)>>

\* What loading each file does, computed once.
Loads == [i \in 1..Len(DolFiles) |-> LoadOutcome(DolFiles[i])]

----------------------------------------------------------------------------
(* Fixed-header pipeline: the handlers of MDLViewerDarkFit.                *)

\* __init__ (lines 43-113); the Entry widgets are empty.
InitView ==
    /\ vdata = [loaded |-> FALSE, bytes |-> <<>>]
    /\ entries = [f \in FieldNames |-> <<>>]
    /\ textures = <<>>
    /\ current_tex = 0
    /\ tex_list = [size |-> 0, sel |-> {}]
    /\ shown = <<>>
    /\ written = <<>>
    /\ dialog = <<>>
    /\ outcome = "ok"
    /\ data = <<>>
    /\ start = 0
    /\ texture_count = 0
    /\ name_start = -1
    /\ name_end = -1
    /\ texture_name = <<>>
    /\ texture_start = -1
    /\ saved = <<>>
    /\ pc = "done"
    /\ iters = 0
    /\ pal = <<>> /\ pal0 = <<>> /\ applied = 0

\* Lines 119-121: the file dialog is dismissed.
LoadCancel ==
    /\ dialog = <<>>
    /\ outcome' = "cancelled"
    /\ written' = <<>>
    /\ UNCHANGED <<vdata, entries, textures, current_tex, tex_list, shown>>
    /\ UNCHANGED <<dialog, scanVars, palVars>>

\* Lines 122-124, 171-172: open or read raises (no such file, a directory,
\* unreadable); the error is shown and nothing has changed.
LoadOpenFails ==
    /\ dialog = <<>>
    /\ outcome' = "load_error"
    /\ written' = <<>>
    /\ UNCHANGED <<vdata, entries, textures, current_tex, tex_list, shown>>
    /\ UNCHANGED <<dialog, scanVars, palVars>>

\* Lines 122-136, 171-172: a header field raises; self.data is already the
\* new file and the fields before it are already shown.
LoadHeaderFails ==
    /\ dialog = <<>>
    /\ \E i \in 1..Len(DolFiles) :
          /\ ~Loads[i].complete
          /\ vdata' = [loaded |-> TRUE, bytes |-> Loads[i].bytes]
          /\ entries' = EntriesAfter(entries, Loads[i].texts)
    /\ outcome' = "load_error"
    /\ written' = <<>>
    /\ UNCHANGED <<textures, current_tex, tex_list, shown>>
    /\ UNCHANGED <<dialog, scanVars, palVars>>

\* Lines 122-163, 171-172: a texture entry raises; self.textures holds the
\* entries before it, the Listbox and current_tex are the old ones.
LoadTexturesFail ==
    /\ dialog = <<>>
    /\ \E i \in 1..Len(DolFiles) :
          /\ Loads[i].complete
          /\ Loads[i].result.raised
          /\ vdata' = [loaded |-> TRUE, bytes |-> Loads[i].bytes]
          /\ entries' = EntriesAfter(entries, Loads[i].texts)
          /\ textures' = Loads[i].result.textures
    /\ outcome' = "load_error"
    /\ written' = <<>>
    /\ UNCHANGED <<current_tex, tex_list, shown>>
    /\ UNCHANGED <<dialog, scanVars, palVars>>

\* Lines 122-170: the whole file loads; the Listbox is refilled, its first
\* row selected, and on_tex_select(None) renders it.
LoadOk ==
    /\ dialog = <<>>
    /\ \E i \in 1..Len(DolFiles) :
          /\ Loads[i].complete
          /\ ~Loads[i].result.raised
          /\ LET texs == Loads[i].result.textures
                 vd == [loaded |-> TRUE, bytes |-> Loads[i].bytes]
             IN /\ vdata' = vd
                /\ entries' = EntriesAfter(entries, Loads[i].texts)
                /\ textures' = texs
                /\ tex_list' = [size |-> Len(texs), sel |-> IF Len(texs) > 0 THEN {0} ELSE {}]
                /\ IF Len(texs) > 0
                   THEN /\ current_tex' = 0
                        /\ \E c \in CanvasSizes :
                              /\ shown' = RenderShown(shown, texs, vd, 0, c[1], c[2])
                              /\ outcome' = IF RenderOutcome(texs, vd, 0, c[1], c[2]) = "ok"
                                            THEN "ok" ELSE "load_error"
                   ELSE /\ UNCHANGED <<current_tex, shown>>
                        /\ outcome' = "ok"
    /\ written' = <<>>
    /\ UNCHANGED <<dialog, scanVars, palVars>>

load_mdl == LoadCancel \/ LoadOpenFails \/ LoadHeaderFails \/ LoadTexturesFail \/ LoadOk

\* Lines 245-249: the user picks row k of the Listbox.
on_tex_select ==
    /\ dialog = <<>>
    /\ \E k \in 0..(tex_list.size - 1) :
          /\ tex_list' = [tex_list EXCEPT !.sel = {k}]
          /\ current_tex' = k
          /\ \E c \in CanvasSizes :
                /\ shown' = RenderShown(shown, textures, vdata, k, c[1], c[2])
                /\ outcome' = RenderOutcome(textures, vdata, k, c[1], c[2])
    /\ written' = <<>>
    /\ UNCHANGED <<vdata, entries, textures>>
    /\ UNCHANGED <<dialog, scanVars, palVars>>

\* Lines 110, 188-223: the canvas is resized.  The <Configure> callback also
\* runs in the event loop of an open save dialog; the other handlers are
\* started from the main window, which a dialog blocks.
render_texture ==
    /\ \E c \in CanvasSizes :
          /\ shown' = RenderShown(shown, textures, vdata, current_tex, c[1], c[2])
          /\ outcome' = RenderOutcome(textures, vdata, current_tex, c[1], c[2])
    /\ written' = <<>>
    /\ UNCHANGED <<vdata, entries, textures, current_tex, tex_list>>
    /\ UNCHANGED <<dialog, scanVars, palVars>>

\* Line 255: self.textures[self.current_tex] raises IndexError.
SaveSelectedIndexError ==
    /\ dialog = <<>>
    /\ ~(current_tex < Len(textures))
    /\ outcome' = "IndexError"
    /\ written' = <<>>
    /\ UNCHANGED <<vdata, entries, textures, current_tex, tex_list, shown>>
    /\ UNCHANGED <<dialog, scanVars, palVars>>

\* Lines 255-262: the image is built and the save dialog opens, suggesting
\* the texture's name; without an image the handler returns.
SaveSelectedAsk ==
    /\ dialog = <<>>
    /\ current_tex < Len(textures)
    /\ LET img == get_texture_image(textures[current_tex + 1], vdata.bytes)
       IN IF img = <<>>
          THEN /\ dialog' = <<>>
               /\ outcome' = "ok"
          ELSE /\ dialog' = <<[file |-> PngName(textures[current_tex + 1].name),
                               tex |-> current_tex, image |-> img[1]]>>
               /\ outcome' = "asking"
    /\ written' = <<>>
    /\ UNCHANGED <<vdata, entries, textures, current_tex, tex_list, shown>>
    /\ UNCHANGED <<scanVars, palVars>>

\* Lines 263-264: the save dialog is dismissed.
SaveSelectedCancel ==
    /\ dialog # <<>>
    /\ dialog' = <<>>
    /\ outcome' = "cancelled"
    /\ written' = <<>>
    /\ UNCHANGED <<vdata, entries, textures, current_tex, tex_list, shown>>
    /\ UNCHANGED <<scanVars, palVars>>

OtherPath == <<111, 117, 116, 46, 112, 110, 103>>      \* 'out.png'

\* The file names the user can answer the dialog with.
SavePaths(initialfile) == {initialfile, OtherPath}

\* Lines 265-267: the image built when the dialog opened is written to the
\* path the user chose.
SaveSelectedWrite ==
    /\ dialog # <<>>
    /\ \E path \in SavePaths(dialog[1].file) :
          written' = <<[dialog[1] EXCEPT !.file = path]>>
    /\ dialog' = <<>>
    /\ outcome' = "ok"
    /\ UNCHANGED <<vdata, entries, textures, current_tex, tex_list, shown>>
    /\ UNCHANGED <<scanVars, palVars>>

\* Lines 265-269: img8.save raises and the error is shown.
SaveSelectedFails ==
    /\ dialog # <<>>
    /\ dialog' = <<>>
    /\ outcome' = "save_error"
    /\ written' = <<>>
    /\ UNCHANGED <<vdata, entries, textures, current_tex, tex_list, shown>>
    /\ UNCHANGED <<scanVars, palVars>>

save_selected_png8 ==
    \/ SaveSelectedIndexError
    \/ SaveSelectedAsk
    \/ SaveSelectedCancel
    \/ SaveSelectedWrite
    \/ SaveSelectedFails

\* Lines 272-274: the folder dialog is dismissed.
SaveAllCancel ==
    /\ dialog = <<>>
    /\ outcome' = "cancelled"
    /\ written' = <<>>
    /\ UNCHANGED <<vdata, entries, textures, current_tex, tex_list, shown>>
    /\ UNCHANGED <<dialog, scanVars, palVars>>

\* Lines 272-284: every texture that has an image is written.
SaveAll ==
    /\ dialog = <<>>
    /\ written' = SaveAllFrom(textures, vdata.bytes, 1, 0)
    /\ outcome' = "ok"
    /\ UNCHANGED <<vdata, entries, textures, current_tex, tex_list, shown>>
    /\ UNCHANGED <<dialog, scanVars, palVars>>

\* Lines 272-282: img8.save raises on one of the images (the folder is gone,
\* a directory of that name is in the way); nothing catches it, the images
\* before it are written and no message is shown.
SaveAllFails ==
    /\ dialog = <<>>
    /\ LET all == SaveAllFrom(textures, vdata.bytes, 1, 0)
       IN \E n \in 0..(Len(all) - 1) : written' = SubSeq(all, 1, n)
    /\ outcome' = "OSError"
    /\ UNCHANGED <<vdata, entries, textures, current_tex, tex_list, shown>>
    /\ UNCHANGED <<dialog, scanVars, palVars>>

save_all_png8 == SaveAllCancel \/ SaveAll \/ SaveAllFails

NextView ==
    \/ load_mdl
    \/ on_tex_select
    \/ render_texture
    \/ save_selected_png8
    \/ save_all_png8

SpecView == InitView /\ [][NextView]_vars

----------------------------------------------------------------------------
(* Marker-scan pipeline: what the format description calls a record.       *)

\* The offsets at which pat occurs in d.
Occurrences(d, pat) ==
    {i \in 0..(Len(d) - Len(pat)) : \A k \in 1..Len(pat) : d[i + k] = pat[k]}

\* The first run of three zero bytes at or after offset o + 4 (-1: none).
FirstZeroRun(d, o) == Find(d, ZeroRun, o + 4)

\* A well-formed record starts at offset o: the name prefix 'psx_', the name,
\* three zero bytes, the 4-byte size pattern, the palette block that the
\* sentinel opens, and width*height index bytes before the next name prefix
\* or the end of the buffer.
WellFormedAt(d, o) ==
    /\ Slice(d, o, o + 4) = PsxMarker
    /\ FirstZeroRun(d, o) # -1
    /\ LET e == FirstZeroRun(d, o)
           w == FromLittle(Slice(d, e + 3, e + 5))
           h == FromLittle(Slice(d, e + 5, e + 7))
           nxt == Find(d, PsxMarker, o + 4)
           limit == IF nxt = -1 THEN Len(d) ELSE nxt
       IN /\ Slice(d, e + 7, e + 11) = Sentinel
          /\ e + 7 + PaletteBytes + w * h <= limit

WellFormedStarts(d) == {o \in Occurrences(d, PsxMarker) : WellFormedAt(d, o)}

\* The well-formed records whose name goes on with 'gman': the ones the scan
\* of lines 69-71 can arrive at.
ReachableStarts(d) == {o \in WellFormedStarts(d) : Slice(d, o + 4, o + 8) = GmanMarker}

\* Every name prefix of the buffer opens a well-formed record.
OnlyWellFormed(d) == Occurrences(d, PsxMarker) = WellFormedStarts(d)

SavedOffsetsIncrease ==
    \A j, k \in 1..Len(saved) : j < k => saved[j].name_start < saved[k].name_start

\* C1: a buffer of N well-formed records yields exactly N records in
\* increasing name-offset order, and a buffer with no marker (the empty one
\* included) yields none and ends without error.
C1_ExactlyNRecords ==
    OnlyWellFormed(data) =>
        /\ pc # "crashed"
        /\ pc = "done" =>
              /\ Len(saved) = Cardinality(WellFormedStarts(data))
              /\ SavedOffsetsIncrease

\* C2: a candidate whose name ends in '.BMP' saves nothing, its sentinel is
\* not searched for, the scan resumes at name_end with the loop still running,
\* and a record that follows it is discovered by the next iteration: its name
\* and its sentinel are found, and its image is saved unless image.save
\* raises.
C2_BmpStep ==
    (iters' = iters + 1 /\ name_start' # -1 /\ EndsWith(texture_name', BmpSuffix))
        => /\ saved' = saved
           /\ texture_count' = texture_count
           /\ texture_start' = texture_start
           /\ start' = name_end'
           /\ pc' = "loop"

\* The state a '.BMP' skip leaves, with a well-formed record next in the
\* buffer: the following iteration finds the name and the sentinel of that
\* record and either saves its image and stays in the loop, or ends in the
\* exception of image.save with nothing saved.
C2_NextRecordFound ==
    LET o == Find(data, PsxMarker, start)
    IN (/\ pc = "loop"
        /\ iters' = iters + 1
        /\ name_start # -1
        /\ EndsWith(texture_name, BmpSuffix)
        /\ start = name_end
        /\ o \in ReachableStarts(data)
        /\ Find(data, GmanMarker, start) = o + 4)
           => /\ name_start' = o + 4
              /\ texture_start' = FirstZeroRun(data, o) + 7
              /\ \/ /\ pc' = "loop"
                    /\ Len(saved') = Len(saved) + 1
                    /\ SubSeq(saved', 1, Len(saved)) = saved
                    /\ saved'[Len(saved')].name_start = o + 4
                    /\ saved'[Len(saved')].texture_start = texture_start'
                 \/ /\ pc' = "save_failed"
                    /\ saved' = saved

C2_BmpSkipped == [][C2_BmpStep /\ C2_NextRecordFound]_vars

\* A record was saved whose name lies after a skipped '.BMP' name.
C2_Witness ==
    /\ Occurrences(data, BmpSuffix) # {}
    /\ \E k \in 1..Len(saved) : \E b \in Occurrences(data, BmpSuffix) : b < saved[k].name_start

\* The bytes the last candidate's name was cut from: the ones between the
\* 'psx_' marker and name_end.
RawName == Slice(data, name_start, name_end)

\* The last candidate's name starts where a 'psx_' marker ends.
AfterMarker == name_start # -1 /\ Slice(data, name_start - 4, name_start) = PsxMarker

\* The last candidate's name is immediately followed by three zero bytes.
NameTerminated == name_start # -1 /\ Slice(data, name_end, name_end + 3) = ZeroRun

\* name_end is where the first run of three zero bytes after the marker starts.
EndsAtFirstZeroRun ==
    \A e \in (name_start + 4)..(name_end - 1) : Slice(data, e, e + 3) # ZeroRun

\* C3 as stated: the decoded name is exactly the bytes between the marker and
\* the first run of three zero bytes, NULs replaced by underscores.
C3_Original ==
    (NameTerminated /\ AfterMarker) =>
        /\ EndsAtFirstZeroRun
        /\ Len(texture_name) = Len(RawName)
        /\ \A i \in 1..Len(RawName) :
              texture_name[i] = IF RawName[i] = 0 THEN 95 ELSE RawName[i]

\* The position in RawName of its j-th byte below 0x80.
NthAscii(j) ==
    CHOOSE i \in 1..Len(RawName) :
        /\ RawName[i] < 128
        /\ Cardinality({m \in 1..i : RawName[m] < 128}) = j

\* C3 amended: the decoded name is the bytes between the marker and the first
\* run of three zero bytes with the bytes >= 0x80 dropped and NULs replaced
\* by underscores; the name ends at the first position where three zero
\* bytes start, or at the buffer-end bound (name_end + 3 >= len).
C3_NameExtraction ==
    /\ (NameTerminated /\ AfterMarker) =>
           /\ EndsAtFirstZeroRun
           /\ Len(texture_name) = Cardinality({i \in 1..Len(RawName) : RawName[i] < 128})
           /\ \A j \in 1..Len(texture_name) :
                 texture_name[j] = IF RawName[NthAscii(j)] = 0 THEN 95 ELSE RawName[NthAscii(j)]
    /\ name_start # -1 =>
           /\ EndsAtFirstZeroRun
           /\ NameTerminated \/ name_end + 3 >= Len(data)

\* A terminated name with an embedded NUL was decoded.
C3_Witness ==
    /\ NameTerminated
    /\ AfterMarker
    /\ \E i \in 1..Len(RawName) : RawName[i] >= 128
    /\ \E i \in 1..Len(RawName) : RawName[i] = 0
    /\ \E j \in 1..Len(texture_name) : texture_name[j] = 95 /\ RawName[NthAscii(j)] = 0

\* C6 (marker scan): when a record has failed to decode, every well-formed
\* record the scan can arrive at is still decoded and saved, whether it lies
\* before or after the failing one.
C6_SiblingsDecoded ==
    pc = "crashed" =>
        \A o \in ReachableStarts(data) : \E k \in 1..Len(saved) : saved[k].name_start = o + 4

\* C8 as stated: the scan ends after at most len(data)/4 iterations, and it
\* ends because the marker or the sentinel is not found or start has reached
\* the length of the buffer.
C8_Original == pc # "loop" => (4 * iters <= Len(data) /\ pc = "done")

\* An iteration that stays in the loop moves start to name_end, at least 4
\* further on.
C8_Progress ==
    (pc' = "loop" /\ iters' = iters + 1) => (start' = name_end' /\ start' >= start + 4)

\* At most len(data)/4 iterations stay in the loop; the one that leaves it
\* comes on top.
C8_Bound ==
    /\ pc = "loop" => 4 * iters <= Len(data)
    /\ 4 * (iters - 1) <= Len(data)

\* The ways the scan leaves the loop: start has reached the length of the
\* buffer, the marker is not found, the sentinel is not found, or an
\* exception that nothing catches, raised while the record is decoded or
\* while its image is saved.
C8_Exits ==
    (pc = "loop" /\ pc' # "loop") =>
        \/ /\ pc' = "done"
           /\ \/ ~(start < Len(data))
              \/ /\ name_start' = -1
                 /\ \/ Find(data, PsxMarker, start) = -1
                    \/ Find(data, GmanMarker, start) = -1
              \/ /\ name_start' # -1
                 /\ texture_start' = -1
                 /\ Find(data, Sentinel, name_end') = -1
        \/ /\ pc' = "crashed"
           /\ texture_start' >= 4
           /\ DecodeRaises(data, texture_start')
        \/ /\ pc' = "save_failed"
           /\ texture_start' >= 4
           /\ ~DecodeRaises(data, texture_start')

\* C8 amended: start strictly increases by at least 4 in every iteration that
\* stays in the loop, at most len(data)/4 iterations stay in it, so the body
\* runs at most len(data)/4 + 1 times; the scan ends because the marker or
\* the sentinel is not found, start has reached the length of the buffer, or
\* an exception leaves the function.
C8_Terminates == [][C8_Progress /\ C8_Bound /\ C8_Bound' /\ C8_Exits]_vars

\* A scan of three iterations has ended.
C8_Witness == pc = "done" /\ iters = 3 /\ start >= 8

----------------------------------------------------------------------------
(* The palette swizzle.                                                    *)

\* How often byte value v occurs in p.
CountOf(p, v) == Cardinality({k \in 1..Len(p) : p[k] = v})

\* The byte offset i of the array took part in an exchange.
InUpperBank(i) == 64 <= i % 128 /\ i % 128 < 96
InLowerBank(i, n) == 32 <= i % 128 /\ i % 128 < 64 /\ i + 32 < n

\* C4: the swizzle keeps the length and the multiset of bytes; one
\* application exchanges offset i of [64, 96) within its 128-byte block with
\* offset i - 32 and moves nothing else; two applications restore the input.
C4_SelfInverse ==
    /\ Len(pal) = Len(pal0)
    /\ \A v \in 0..255 : CountOf(pal, v) = CountOf(pal0, v)
    /\ applied % 2 = 0 => pal = pal0
    /\ applied % 2 = 1 =>
          \A i \in 0..(Len(pal0) - 1) :
              pal[i + 1] = IF InUpperBank(i) THEN pal0[i - 32 + 1]
                           ELSE IF InLowerBank(i, Len(pal0)) THEN pal0[i + 32 + 1]
                           ELSE pal0[i + 1]

\* The swizzle was applied twice to a full palette whose banks differ.
C4_Witness ==
    /\ applied = 2
    /\ Len(pal0) = PaletteBytes
    /\ pal0[64 + 1] # pal0[32 + 1]
    /\ pal = pal0

----------------------------------------------------------------------------
(* The fixed-header pipeline.                                              *)

\* Fewer than width*height index bytes follow the palette of texture t in d.
TruncatedPixels(t, d) == Len(d) - (t.offset + PaletteBytes) < t.width * t.height

\* The palette and pixel bytes of texture t lie wholly inside d.
RangesInside(t, d) == t.offset + PaletteBytes + t.width * t.height <= Len(d)

\* C5: a record with fewer than width*height index bytes after its palette
\* ends in an error and yields no image: the viewer neither writes nor shows
\* an image of such a texture, and the marker scan saves no image of such a
\* record.
C5_TruncatedIsError ==
    [][/\ \A k \in 1..Len(written') :
             ~TruncatedPixels(textures'[written'[k].tex + 1], vdata'.bytes)
       /\ shown' # shown =>
             \A k \in 1..Len(shown') :
                 ~TruncatedPixels(textures'[shown'[k].tex + 1], vdata'.bytes)
       /\ saved' # saved =>
             saved'[Len(saved')].width * saved'[Len(saved')].height
                 <= Len(TextureData(data, saved'[Len(saved')].texture_start)) - PaletteBytes]_vars

\* C7: load_mdl adds no texture whose palette or pixel range is not wholly
\* inside the buffer just read.
C7_InBounds ==
    [][textures' # textures =>
          \A k \in 1..Len(textures') : RangesInside(textures'[k], vdata'.bytes)]_vars

\* The bytes the data blob spends on the textures before the i-th.
RECURSIVE BytesBefore(_, _)
BytesBefore(texs, i) ==
    IF i <= 1 THEN 0
    ELSE BytesBefore(texs, i - 1)
            + 1024 + 32 + texs[i - 1].width * texs[i - 1].height

\* The byte array b with its banks [32, 64) and [64, 96) of every 128-byte
\* block exchanged.
BanksExchanged(b) ==
    [k \in 1..Len(b) |->
        IF InUpperBank(k - 1) THEN b[k - 32]
        ELSE IF InLowerBank(k - 1, Len(b)) THEN b[k + 32]
        ELSE b[k]]

\* The list texs is laid out in d as the header of d declares.
LayoutOf(texs, d) ==
    /\ \A i \in 1..Len(texs) :
          /\ texs[i].offset = U32(d, 188) + 32 + BytesBefore(texs, i)
          /\ texs[i].width = U32(d, U32(d, 184) + 80 * (i - 1) + 68)
          /\ texs[i].height = U32(d, U32(d, 184) + 80 * (i - 1) + 72)
          /\ texs[i].palette = BanksExchanged(Slice(d, texs[i].offset, texs[i].offset + 1024))
    /\ \A i, j \in 1..Len(texs) : i < j =>
          /\ texs[i].offset < texs[j].offset
          /\ texs[i].offset + 1024 + texs[i].width * texs[i].height <= texs[j].offset

\* Pixel k of a written image is the palette entry of index byte k of the
\* block at offset + 1024.
PixelsFrom(w, texs, d) ==
    LET t == texs[w.tex + 1]
    IN \A k \in 1..(t.width * t.height) :
          t.offset + 1024 + k <= Len(d) =>
              w.image.pixels[k] = QuadPrefix(t.palette, d[t.offset + 1024 + k] % 256)

\* C9: the offset of texture i is texturedataindex + 32 plus 1024 + 32 +
\* width*height for every texture before it, its palette is the 1024 bytes at
\* that offset (banks exchanged) and its pixels are read at offset + 1024; the offsets
\* strictly increase and the palette+pixel ranges do not overlap.
C9_Layout ==
    [][/\ textures' # textures => LayoutOf(textures', vdata'.bytes)
       /\ (textures' # textures /\ outcome' = "ok") => Len(textures') = U32(vdata'.bytes, 180)
       /\ \A k \in 1..Len(written') : PixelsFrom(written'[k], textures', vdata'.bytes)]_vars

\* A complete file of two textures was loaded and its images written.
C9_Witness ==
    /\ Len(textures) >= 2
    /\ Len(written) = Len(textures)
    /\ \A k \in 1..Len(textures) : RangesInside(textures[k], vdata.bytes)
    /\ textures[2].offset > textures[1].offset + 1024

\* C10: no handler indexes textures[current_tex] out of range, and a load
\* that fails leaves current_tex a valid index.
C10_IndexValid ==
    /\ outcome # "IndexError"
    /\ outcome = "load_error" => current_tex < Len(textures)

====
